---- MODULE Spec2Model ----
(***************************************************************************)
(* Model of groupie's group store (src/groupie/core.py, FileGroupManager). *)
(* The store is an insertion-ordered mapping from group name to a list of  *)
(* path strings, backed by one JSON document on disk.  One process at a    *)
(* time constructs a manager (load + repair), calls store operations and   *)
(* exits.  The filesystem is the environment: each call that tests         *)
(* os.path.exists sees whatever set of paths exists at that moment.        *)
(* op, ret, wrote, pre, preDisk, prevList and prev record the last call    *)
(* for the properties below; Return clears them when control is back in    *)
(* the caller, and a call starts from there.                               *)
(***************************************************************************)
EXTENDS Naturals, Sequences, FiniteSets, TLC

\* ------------------------------------------------------------------ bounds
\* Longest file_paths argument of add_files_to_group.
MaxInputLen == 2
\* Longest member array of a group in the document found on disk at start.
MaxDocFiles == 2
\* Most paths one group of the document holds when a race starts.
MaxRaceFiles == 1
\* Longest member array of the last group of a hand-edited document.
MaxEditedFiles == 3

\* ------------------------------------------------------------ value spaces
GroupNames == {"x", "y"}
\* Paths as a caller writes them; several spell the same file.
RawPaths == {"a", "./a", "/r/b", "/r/c"}
\* Resolved absolute paths, the only strings a document holds.
Paths == {"/r/a", "/r/b", "/r/c"}

\* str(pathlib.Path(path).resolve()) with the working directory /r.
Resolve(path) ==
    CASE path = "a" -> "/r/a"
      [] path = "./a" -> "/r/a"
      [] OTHER -> path

\* --------------------------------------------------------- list primitives
\* x in s
Contains(s, x) == \E i \in 1..Len(s) : s[i] = x

\* list.remove(x): deletes the first occurrence of x (x is present).
ListRemove(s, x) ==
    LET k == CHOOSE i \in 1..Len(s) : s[i] = x /\ \A j \in 1..(i-1) : s[j] # x
    IN  [i \in 1..(Len(s)-1) |-> IF i < k THEN s[i] ELSE s[i+1]]

\* [f(x) for x in s]
RECURSIVE MapResolve(_)
MapResolve(s) ==
    IF s = <<>> THEN <<>> ELSE <<Resolve(Head(s))>> \o MapResolve(Tail(s))

\* --------------------------------------------------- the dict self.groups
\* An insertion-ordered dict: a sequence of entries with distinct names.
Entry(name, files) == [name |-> name, files |-> files]

\* name in self.groups
HasGroup(gs, name) == \E i \in 1..Len(gs) : gs[i].name = name

\* self.groups[name]
GetFiles(gs, name) == gs[CHOOSE i \in 1..Len(gs) : gs[i].name = name].files

\* self.groups[name] = files: in place for a known key, appended for a new one.
SetItem(gs, name, files) ==
    IF HasGroup(gs, name)
    THEN [i \in 1..Len(gs) |->
            IF gs[i].name = name THEN Entry(name, files) ELSE gs[i]]
    ELSE Append(gs, Entry(name, files))

\* del self.groups[name]
DelItem(gs, name) == SelectSeq(gs, LAMBDA e : e.name # name)

\* ------------------------------------------------------------ persistence
\* Dump leaving out the groups that have no member.
DumpNonEmpty(gs) ==
    LET kept == SelectSeq(gs, LAMBDA e : e.files # <<>>)
    IN  [i \in 1..Len(kept) |-> <<kept[i].name, kept[i].files>>]

\* Dump writing the dict's items last to first.
DumpReversed(gs) ==
    [i \in 1..Len(gs) |-> <<gs[Len(gs) + 1 - i].name, gs[Len(gs) + 1 - i].files>>]

\* json.dump(self.groups, f, indent=2): an object whose members are the
\* dict's items in dict order, each value an array in list order.
Dump(gs) == [i \in 1..Len(gs) |-> <<gs[i].name, gs[i].files>>]

\* json.load(f): members inserted into a fresh dict in document order.
RECURSIVE ParseInto(_, _)
ParseInto(gs, doc) ==
    IF doc = <<>> THEN gs
    ELSE ParseInto(SetItem(gs, Head(doc)[1], Head(doc)[2]), Tail(doc))

Parse(doc) == ParseInto(<<>>, doc)

\* The file at storage_path: absent, or holding a document, or holding
\* bytes that json.load cannot parse (cut short, damaged by hand).
NoFile == [exists |-> FALSE, doc |-> <<>>, parses |-> TRUE]
File(doc) == [exists |-> TRUE, doc |-> doc, parses |-> TRUE]
Garbled == [exists |-> TRUE, doc |-> <<>>, parses |-> FALSE]

\* _save_groups: open(storage_path, 'w') and dump the whole dict.
SaveGroups(gs) == File(Dump(gs))

\* ------------------------------------------------------------ repair pass
\* The inner loop of _fix_duplicate_files over file_paths.copy(): st holds
\* the group's live list, the keys of file_to_group and changes_made.
\* FixFiles leaving the loop after the first removal.
RECURSIVE FixFilesStops(_, _)
FixFilesStops(st, copy) ==
    IF copy = <<>> THEN st
    ELSE LET file_path == Head(copy)
         IN  IF file_path \in st.seen
             THEN [st EXCEPT !.files = ListRemove(@, file_path), !.changed = TRUE]
             ELSE FixFilesStops([st EXCEPT !.seen = @ \cup {file_path}], Tail(copy))

RECURSIVE FixFiles(_, _)
FixFiles(st, copy) ==
    IF copy = <<>> THEN st
    ELSE LET file_path == Head(copy)
         IN  IF file_path \in st.seen
             THEN FixFiles([st EXCEPT !.files = ListRemove(@, file_path),
                                      !.changed = TRUE], Tail(copy))
             ELSE FixFiles([st EXCEPT !.seen = @ \cup {file_path}], Tail(copy))

\* FixGroups with file_to_group started afresh for every group.
RECURSIVE FixGroupsForgets(_, _, _, _)
FixGroupsForgets(gs, i, seen, changed) ==
    IF i > Len(gs) THEN [groups |-> gs, changed |-> changed]
    ELSE LET r == FixFiles([files |-> gs[i].files, seen |-> {},
                            changed |-> changed], gs[i].files)
         IN  FixGroupsForgets([gs EXCEPT ![i].files = r.files], i + 1, {}, r.changed)

\* The outer loop over self.groups.items(), from the i-th entry on.
RECURSIVE FixGroups(_, _, _, _)
FixGroups(gs, i, seen, changed) ==
    IF i > Len(gs) THEN [groups |-> gs, changed |-> changed]
    ELSE LET r == FixFiles([files |-> gs[i].files, seen |-> seen,
                            changed |-> changed], gs[i].files)
         IN  FixGroups([gs EXCEPT ![i].files = r.files], i + 1, r.seen, r.changed)

\* _fix_duplicate_files: the repaired dict and whether it is saved.
_fix_duplicate_files(gs) == FixGroups(gs, 1, {}, FALSE)

\* _load_groups taking a file it cannot parse for an empty store, and saving.
_load_groups_resets(file) ==
    IF file.exists /\ file.parses
    THEN LET r == _fix_duplicate_files(Parse(file.doc))
         IN  [groups |-> r.groups, changed |-> r.changed, raised |-> ""]
    ELSE [groups |-> <<>>, changed |-> file.exists, raised |-> ""]

\* _load_groups: the dict after construction, whether the repair saved, and
\* the exception json.load raised, if any.
_load_groups(file) ==
    IF ~file.exists
    THEN [groups |-> <<>>, changed |-> FALSE, raised |-> ""]
    ELSE IF ~file.parses
    THEN [groups |-> <<>>, changed |-> FALSE, raised |-> "JSONDecodeError"]
    ELSE LET r == _fix_duplicate_files(Parse(file.doc))
         IN  [groups |-> r.groups, changed |-> r.changed, raised |-> ""]

\* ------------------------------------------------------------------ state
VARIABLES
    groups,    \* self.groups of the running process (<<>> when none runs)
    loaded,    \* a FileGroupManager has been constructed and not yet dropped
    disk,      \* the file at storage_path
    op,        \* the last call made: name, arguments, and the set of paths
               \* that existed on the filesystem while it ran
    ret,       \* what the last call returned (or the exception it raised)
    wrote,     \* the last call ran _save_groups
    pre,       \* self.groups before the last call
    preDisk,   \* the file before the last call
    prevList,  \* the result of the call before the last, if list_groups(False)
    prev,      \* the call before the last and its result, where the last
               \* call followed it directly (see Chained)
    lastStore, \* while no process runs: self.groups of the process that ran
               \* before, as it was when that process ended, whether its
               \* last call saved, and which call that was
    race       \* two processes started side by side on the same file: where
               \* each is and the store it holds, the bytes the file has
               \* held since it was last truncated, and who wrote last

vars == <<groups, loaded, disk, op, ret, wrote, pre, preDisk, prevList, prev,
          lastStore, race>>

Call(name, group, paths, clean, exist) ==
    [name |-> name, group |-> group, paths |-> paths, clean |-> clean,
     exist |-> exist]

\* A call that takes no argument of a kind, or never looks at the filesystem.
NoGroup == ""
NoPaths == <<>>
NoFs == {}

\* How a call ends: it returns a value, or raises.
Returned(value) == [raised |-> "", value |-> value]
Raised(exception) == [raised |-> exception, value |-> <<>>]
Nothing == Returned(<<>>)

NoList == [valid |-> FALSE, value |-> <<>>, exist |-> {}]

IdleCall == Call("idle", NoGroup, NoPaths, FALSE, NoFs)

\* Control is in the caller and nothing of an earlier call is remembered.
Idle == op = IdleCall

IsPlainList(call) == call.name = "list_groups" /\ ~call.clean

\* Kept for a list_groups(False) that directly follows another one: what the
\* earlier call returned and the filesystem it saw.
ListJustReturned(call) ==
    IF IsPlainList(call) /\ IsPlainList(op)
    THEN [valid |-> TRUE, value |-> ret.value, exist |-> op.exist] ELSE NoList

NoLast == [valid |-> FALSE, store |-> <<>>, saved |-> FALSE, call |-> "idle"]

NoPrev == [valid |-> FALSE, call |-> IdleCall, value |-> <<>>]

\* The two processes of a race.
Procs == {1, 2}

\* A process that has not yet constructed its manager.
Fresh == [pc |-> "start", groups |-> <<>>, base |-> <<>>, resume |-> "start"]

NoRace == [proc |-> [p \in Procs |-> Fresh], size |-> 0, last |-> 0]

\* Two calls made back to back whose results are related: clean_groups after
\* clean_groups, and remove_file_from_group on the group to which
\* add_files_to_group has just added one path.
Chained(call) ==
    \/ call.name = "clean_groups" /\ op.name = "clean_groups"
    \/ /\ call.name = "remove_file"
       /\ op.name = "add_files"
       /\ ret.raised = ""
       /\ Len(op.paths) = 1
       /\ op.group = call.group

\* Kept for the second call of such a pair: the first call and its result.
CallJustReturned(call) ==
    IF Chained(call) THEN [valid |-> TRUE, call |-> op, value |-> ret.value]
    ELSE NoPrev

\* A call may start once the caller is idle; list_groups(False) may also be
\* repeated straight after itself, and a chained call follow its first.
MayCall(call) ==
    loaded /\ (Idle \/ (IsPlainList(call) /\ IsPlainList(op)) \/ Chained(call))

\* --------------------------------------------------------- initial states
SeqsUpTo(S, n) == UNION {[1..k -> S] : k \in 0..n}

\* Documents a previous run or a hand edit may have left: distinct group
\* names, arrays of resolved paths, repeats of a path allowed.
OneGroupDocs == {<<<<g, fl>>>> : g \in GroupNames, fl \in SeqsUpTo(Paths, MaxDocFiles)}

TwoGroupDocs ==
    {<<<<g, fl>>, <<h, fm>>>> :
        g \in GroupNames, h \in GroupNames,
        fl \in SeqsUpTo(Paths, MaxDocFiles), fm \in SeqsUpTo(Paths, MaxDocFiles)}

InitDocs == {<<>>} \cup OneGroupDocs \cup {d \in TwoGroupDocs : d[1][1] # d[2][1]}

Init ==
    /\ groups = <<>>
    /\ loaded = FALSE
    /\ disk \in {NoFile, Garbled} \cup {File(d) : d \in InitDocs}
    /\ op = IdleCall
    /\ ret = Nothing
    /\ wrote = FALSE
    /\ pre = <<>>
    /\ preDisk = disk
    /\ prevList = NoList
    /\ prev = NoPrev
    /\ lastStore = NoLast
    /\ race = NoRace

\* ---------------------------------------------------------------- actions
\* What every call records about itself.
Record(call, result, saved) ==
    /\ op' = call
    /\ ret' = result
    /\ wrote' = saved
    /\ pre' = groups
    /\ preDisk' = disk
    /\ prevList' = ListJustReturned(call)
    /\ prev' = CallJustReturned(call)
    /\ UNCHANGED race

\* FileGroupManager(storage_path): __init__ runs _load_groups.
Load ==
    /\ ~loaded
    /\ Idle
    /\ LET r == _load_groups(disk)
       IN  /\ groups' = r.groups
           /\ disk' = IF r.changed THEN SaveGroups(r.groups) ELSE disk
           /\ Record(Call("load", NoGroup, NoPaths, FALSE, NoFs),
                     IF r.raised = "" THEN Nothing ELSE Raised(r.raised),
                     r.changed)
           /\ loaded' = (r.raised = "")
    /\ UNCHANGED lastStore

\* The process ends, after a call or later; its manager is dropped.
Exit ==
    /\ loaded
    /\ groups' = <<>>
    /\ loaded' = FALSE
    /\ lastStore' = [valid |-> TRUE, store |-> groups, saved |-> wrote,
                      call |-> op.name]
    /\ op' = IdleCall
    /\ ret' = Nothing
    /\ wrote' = FALSE
    /\ pre' = <<>>
    /\ preDisk' = disk
    /\ prevList' = NoList
    /\ prev' = NoPrev
    /\ UNCHANGED <<disk, race>>

\* The caller has its result; the record of the call is cleared.
Return ==
    /\ ~Idle
    /\ op' = IdleCall
    /\ ret' = Nothing
    /\ wrote' = FALSE
    /\ pre' = groups
    /\ preDisk' = disk
    /\ prevList' = NoList
    /\ prev' = NoPrev
    /\ lastStore' = NoLast
    /\ UNCHANGED <<groups, loaded, disk, race>>

\* create_group without the test for a known name.
create_group_overwrites(gs, name) ==
    [groups |-> SetItem(gs, name, <<>>),
     ret |-> Returned(~HasGroup(gs, name)),
     save |-> ~HasGroup(gs, name)]

\* create_group(name)
create_group(gs, name) ==
    IF HasGroup(gs, name)
    THEN [groups |-> gs, ret |-> Returned(FALSE), save |-> FALSE]
    ELSE [groups |-> SetItem(gs, name, <<>>), ret |-> Returned(TRUE), save |-> TRUE]

\* A call's outcome applied to the process and the file.
Apply(call, r) ==
    /\ groups' = r.groups
    /\ disk' = IF r.save THEN SaveGroups(r.groups) ELSE disk
    /\ Record(call, r.ret, r.save)
    /\ UNCHANGED <<loaded, lastStore>>

CreateGroup ==
    \E name \in GroupNames :
       LET call == Call("create_group", name, NoPaths, FALSE, NoFs)
       IN  MayCall(call) /\ Apply(call, create_group(groups, name))

\* StealFromOthers without the removal: the path stays where it was.
StealNothing(gs, group_name, path) == gs

\* StealFromOthers with the scan starting one entry late.
StealSkipsFirst(gs, group_name, path) ==
    [i \in 1..Len(gs) |->
        IF i > 1 /\ gs[i].name # group_name /\ Contains(gs[i].files, path)
        THEN Entry(gs[i].name, ListRemove(gs[i].files, path))
        ELSE gs[i]]

\* The inner loop of add_files_to_group over self.groups.items(): path
\* leaves every group other than group_name that holds it.
StealFromOthers(gs, group_name, path) ==
    [i \in 1..Len(gs) |->
        IF gs[i].name # group_name /\ Contains(gs[i].files, path)
        THEN Entry(gs[i].name, ListRemove(gs[i].files, path))
        ELSE gs[i]]

\* AddOne putting a new member first instead of last.
AddOneFront(st, group_name, path) ==
    LET stolen == StealFromOthers(st.groups, group_name, path)
    IN  IF ~Contains(GetFiles(stolen, group_name), path)
        THEN [groups |-> SetItem(stolen, group_name,
                                 <<path>> \o GetFiles(stolen, group_name)),
              added |-> st.added + 1, already |-> st.already]
        ELSE [groups |-> stolen,
              added |-> st.added, already |-> st.already + 1]

\* One turn of the loop over abs_paths: steal, then append or count.
AddOne(st, group_name, path) ==
    LET stolen == StealFromOthers(st.groups, group_name, path)
    IN  IF ~Contains(GetFiles(stolen, group_name), path)
        THEN [groups |-> SetItem(stolen, group_name,
                                 Append(GetFiles(stolen, group_name), path)),
              added |-> st.added + 1, already |-> st.already]
        ELSE [groups |-> stolen,
              added |-> st.added, already |-> st.already + 1]

RECURSIVE AddLoop(_, _, _)
AddLoop(st, group_name, abs_paths) ==
    IF abs_paths = <<>> THEN st
    ELSE AddLoop(AddOne(st, group_name, Head(abs_paths)), group_name, Tail(abs_paths))

\* add_files_to_group testing for the group only after the first path has
\* been taken out of the groups that hold it.
add_files_late_check(gs, group_name, file_paths) ==
    LET stolen == IF file_paths = <<>> THEN gs
                  ELSE StealFromOthers(gs, group_name, Resolve(Head(file_paths)))
    IN  IF ~HasGroup(gs, group_name)
        THEN [groups |-> stolen, ret |-> Raised("KeyError"), save |-> FALSE]
        ELSE LET r == AddLoop([groups |-> gs, added |-> 0, already |-> 0],
                              group_name, MapResolve(file_paths))
             IN  [groups |-> r.groups, ret |-> Returned(<<r.added, r.already>>),
                  save |-> TRUE]

\* add_files_to_group(group_name, file_paths)
add_files_to_group(gs, group_name, file_paths) ==
    IF ~HasGroup(gs, group_name)
    THEN [groups |-> gs, ret |-> Raised("KeyError"), save |-> FALSE]
    ELSE LET r == AddLoop([groups |-> gs, added |-> 0, already |-> 0],
                          group_name, MapResolve(file_paths))
         IN  [groups |-> r.groups, ret |-> Returned(<<r.added, r.already>>), save |-> TRUE]

\* The resolved paths a call names.
Named(file_paths) == {Resolve(file_paths[i]) : i \in 1..Len(file_paths)}

AddFiles ==
    \E group_name \in GroupNames, file_paths \in SeqsUpTo(RawPaths, MaxInputLen) :
       LET call == Call("add_files", group_name, file_paths, FALSE, NoFs)
       IN  MayCall(call) /\ Apply(call, add_files_to_group(groups, group_name, file_paths))

\* os.path.exists(path)
Exists(exist, path) == path \in exist

\* FilesWithStatus with the flag the wrong way round.
FilesWithExists(files, exist) ==
    [i \in 1..Len(files) |-> <<files[i], Exists(exist, files[i])>>]

\* files_with_status of one group in list_groups.
FilesWithStatus(files, exist) ==
    [i \in 1..Len(files) |-> <<files[i], ~Exists(exist, files[i])>>]

\* ListKept keeping a path unless it exists and clean is set.
ListKeptMissing(files, clean, exist) ==
    SelectSeq(files, LAMBDA path : ~Exists(exist, path) \/ ~clean)

\* new_file_list of one group in list_groups.
ListKept(files, clean, exist) ==
    SelectSeq(files, LAMBDA path : Exists(exist, path) \/ ~clean)

\* list_groups(clean)
list_groups(gs, clean, exist) ==
    [groups |-> [i \in 1..Len(gs) |->
                    IF clean /\ Len(ListKept(gs[i].files, clean, exist)) # Len(gs[i].files)
                    THEN Entry(gs[i].name, ListKept(gs[i].files, clean, exist))
                    ELSE gs[i]],
     ret |-> Returned([i \in 1..Len(gs) |->
                Entry(gs[i].name, FilesWithStatus(gs[i].files, exist))]),
     save |-> clean]

ListGroups ==
    \E clean \in BOOLEAN, exist \in SUBSET Paths :
       LET call == Call("list_groups", NoGroup, NoPaths, clean, exist)
       IN  MayCall(call) /\ Apply(call, list_groups(groups, clean, exist))

\* CleanKept that drops nothing.
CleanKeptAll(files, exist) == files

\* CleanRemoved collecting the paths that exist.
CleanRemovedExisting(files, exist) ==
    SelectSeq(files, LAMBDA path : Exists(exist, path))

\* new_file_list and removed_files of one group in clean_groups.
CleanKept(files, exist) == SelectSeq(files, LAMBDA path : Exists(exist, path))
CleanRemoved(files, exist) == SelectSeq(files, LAMBDA path : ~Exists(exist, path))

\* RemovedDict with an entry for every group, whatever it lost.
RemovedDictAll(gs, exist) ==
    [i \in 1..Len(gs) |-> Entry(gs[i].name, CleanRemoved(gs[i].files, exist))]

\* The dict removed that clean_groups builds.
RemovedDict(gs, exist) ==
    SelectSeq([i \in 1..Len(gs) |->
                  Entry(gs[i].name, CleanRemoved(gs[i].files, exist))],
              LAMBDA e : e.files # <<>>)

\* clean_groups deleting the groups it leaves empty.
clean_groups_drops_empty(gs, exist) ==
    [groups |-> SelectSeq([i \in 1..Len(gs) |->
                              Entry(gs[i].name, CleanKept(gs[i].files, exist))],
                          LAMBDA e : e.files # <<>>),
     ret |-> Returned(RemovedDict(gs, exist)),
     save |-> RemovedDict(gs, exist) # <<>>]

\* clean_groups()
clean_groups(gs, exist) ==
    [groups |-> [i \in 1..Len(gs) |->
                    IF CleanRemoved(gs[i].files, exist) # <<>>
                    THEN Entry(gs[i].name, CleanKept(gs[i].files, exist))
                    ELSE gs[i]],
     ret |-> Returned(RemovedDict(gs, exist)),
     save |-> RemovedDict(gs, exist) # <<>>]

CleanGroups ==
    \E exist \in SUBSET Paths :
       LET call == Call("clean_groups", NoGroup, NoPaths, FALSE, exist)
       IN  MayCall(call) /\ Apply(call, clean_groups(groups, exist))

\* remove_group emptying the group instead of deleting it.
remove_group_empties(gs, group_name) ==
    IF ~HasGroup(gs, group_name)
    THEN [groups |-> gs, ret |-> Returned(FALSE), save |-> FALSE]
    ELSE [groups |-> SetItem(gs, group_name, <<>>), ret |-> Returned(TRUE),
          save |-> TRUE]

\* remove_group(group_name)
remove_group(gs, group_name) ==
    IF ~HasGroup(gs, group_name)
    THEN [groups |-> gs, ret |-> Returned(FALSE), save |-> FALSE]
    ELSE [groups |-> DelItem(gs, group_name), ret |-> Returned(TRUE), save |-> TRUE]

RemoveGroup ==
    \E group_name \in GroupNames :
       LET call == Call("remove_group", group_name, NoPaths, FALSE, NoFs)
       IN  MayCall(call) /\ Apply(call, remove_group(groups, group_name))

\* remove_file_from_group without its _save_groups call.
remove_file_unsaved(gs, group_name, file_path) ==
    IF ~HasGroup(gs, group_name)
    THEN [groups |-> gs, ret |-> Raised("KeyError"), save |-> FALSE]
    ELSE IF ~Contains(GetFiles(gs, group_name), Resolve(file_path))
    THEN [groups |-> gs, ret |-> Returned(FALSE), save |-> FALSE]
    ELSE [groups |-> SetItem(gs, group_name,
                             ListRemove(GetFiles(gs, group_name), Resolve(file_path))),
          ret |-> Returned(TRUE), save |-> FALSE]

\* remove_file_from_group comparing the path as given, unresolved.
remove_file_unresolved(gs, group_name, file_path) ==
    IF ~HasGroup(gs, group_name)
    THEN [groups |-> gs, ret |-> Raised("KeyError"), save |-> FALSE]
    ELSE IF ~Contains(GetFiles(gs, group_name), file_path)
    THEN [groups |-> gs, ret |-> Returned(FALSE), save |-> FALSE]
    ELSE [groups |-> SetItem(gs, group_name,
                             ListRemove(GetFiles(gs, group_name), file_path)),
          ret |-> Returned(TRUE), save |-> TRUE]

\* remove_file_from_group(group_name, file_path)
remove_file_from_group(gs, group_name, file_path) ==
    IF ~HasGroup(gs, group_name)
    THEN [groups |-> gs, ret |-> Raised("KeyError"), save |-> FALSE]
    ELSE IF ~Contains(GetFiles(gs, group_name), Resolve(file_path))
    THEN [groups |-> gs, ret |-> Returned(FALSE), save |-> FALSE]
    ELSE [groups |-> SetItem(gs, group_name,
                             ListRemove(GetFiles(gs, group_name), Resolve(file_path))),
          ret |-> Returned(TRUE), save |-> TRUE]

RemoveFile ==
    \E group_name \in GroupNames, file_path \in RawPaths :
       LET call == Call("remove_file", group_name, <<file_path>>, FALSE, NoFs)
       IN  MayCall(call) /\ Apply(call, remove_file_from_group(groups, group_name, file_path))

Next ==
    \/ Load
    \/ Exit
    \/ Return
    \/ CreateGroup
    \/ AddFiles
    \/ ListGroups
    \/ CleanGroups
    \/ RemoveGroup
    \/ RemoveFile

Spec == Init /\ [][Next]_vars

\* ------------------------------------------------------- a save that fails
\* _save_groups raising OSError.  open(storage_path, 'w') either fails and
\* leaves the file alone, or succeeds and truncates it, and then json.dump
\* fails on a write: the file is left holding a prefix of the new document,
\* which does not parse.  No command catches OSError, so the exception ends
\* the process and its manager is dropped.
Fail(call, r, torn) ==
    /\ r.save
    /\ groups' = <<>>
    /\ loaded' = FALSE
    /\ disk' = IF torn THEN Garbled ELSE disk
    /\ Record(call, Raised("OSError"), FALSE)
    /\ UNCHANGED lastStore

\* The constructor's repair save failing: no manager is constructed.
LoadSaveFails(torn) ==
    /\ ~loaded
    /\ Idle
    /\ _load_groups(disk).changed
    /\ groups' = <<>>
    /\ disk' = IF torn THEN Garbled ELSE disk
    /\ Record(Call("load", NoGroup, NoPaths, FALSE, NoFs), Raised("OSError"), FALSE)
    /\ UNCHANGED <<loaded, lastStore>>

SaveFails ==
    \E torn \in BOOLEAN :
       \/ LoadSaveFails(torn)
       \/ \E name \in GroupNames :
             LET call == Call("create_group", name, NoPaths, FALSE, NoFs)
             IN  MayCall(call) /\ Fail(call, create_group(groups, name), torn)
       \/ \E group_name \in GroupNames, file_paths \in SeqsUpTo(RawPaths, MaxInputLen) :
             LET call == Call("add_files", group_name, file_paths, FALSE, NoFs)
             IN  /\ MayCall(call)
                 /\ Fail(call, add_files_to_group(groups, group_name, file_paths), torn)
       \/ \E exist \in SUBSET Paths :
             LET call == Call("list_groups", NoGroup, NoPaths, TRUE, exist)
             IN  MayCall(call) /\ Fail(call, list_groups(groups, TRUE, exist), torn)
       \/ \E exist \in SUBSET Paths :
             LET call == Call("clean_groups", NoGroup, NoPaths, FALSE, exist)
             IN  MayCall(call) /\ Fail(call, clean_groups(groups, exist), torn)
       \/ \E group_name \in GroupNames :
             LET call == Call("remove_group", group_name, NoPaths, FALSE, NoFs)
             IN  MayCall(call) /\ Fail(call, remove_group(groups, group_name), torn)
       \/ \E group_name \in GroupNames, file_path \in RawPaths :
             LET call == Call("remove_file", group_name, <<file_path>>, FALSE, NoFs)
             IN  /\ MayCall(call)
                 /\ Fail(call, remove_file_from_group(groups, group_name, file_path), torn)

NextCrash == Next \/ SaveFails

\* The program on a disk where writes may fail.
SpecCrash == Init /\ [][NextCrash]_vars

\* ------------------------------------------------------- the clean command
\* The command is waiting in click.confirm.
AtPrompt == op.name = "clean_confirm"

\* What the clean command records: its -y flag (in the field clean) and the
\* filesystem its latest clean_groups call saw.
CleanCall(name, y, exist) == Call(name, NoGroup, NoPaths, y, exist)

\* groupie clean [-y], up to its prompt or, where it does not prompt, to its
\* end: construct the manager, call clean_groups, return if nothing was
\* removed, and without -y go on to ask.  pre is the store the constructor
\* built and preDisk the file the command found.
CleanCommand ==
    \E y \in BOOLEAN, exist \in SUBSET Paths :
       /\ ~loaded
       /\ Idle
       /\ LET l == _load_groups(disk)
              c == clean_groups(l.groups, exist)
          IN  IF l.raised # ""
              THEN /\ groups' = <<>>
                   /\ loaded' = FALSE
                   /\ disk' = disk
                   /\ op' = CleanCall("clean", y, NoFs)
                   /\ ret' = Raised(l.raised)
                   /\ wrote' = FALSE
                   /\ pre' = <<>>
              ELSE /\ groups' = c.groups
                   /\ loaded' = TRUE
                   /\ disk' = IF c.save THEN SaveGroups(c.groups)
                              ELSE IF l.changed THEN SaveGroups(l.groups)
                              ELSE disk
                   /\ op' = CleanCall(IF c.ret.value # <<>> /\ ~y
                                      THEN "clean_confirm" ELSE "clean", y, exist)
                   /\ ret' = c.ret
                   /\ wrote' = (l.changed \/ c.save)
                   /\ pre' = l.groups
       /\ preDisk' = disk
       /\ prevList' = NoList
       /\ prev' = NoPrev
       /\ UNCHANGED <<lastStore, race>>

\* The user answers the prompt: on no the command returns, on yes it calls
\* clean_groups a second time.
ConfirmClean ==
    \E answer \in BOOLEAN, exist \in SUBSET Paths :
       /\ AtPrompt
       /\ IF ~answer
          THEN /\ op' = CleanCall("clean_declined", FALSE, op.exist)
               /\ UNCHANGED <<groups, disk, ret, wrote>>
          ELSE LET c == clean_groups(groups, exist)
               IN  /\ groups' = c.groups
                   /\ disk' = IF c.save THEN SaveGroups(c.groups) ELSE disk
                   /\ op' = CleanCall("clean", FALSE, exist)
                   /\ ret' = c.ret
                   /\ wrote' = (wrote \/ c.save)
       /\ UNCHANGED <<loaded, pre, preDisk, prevList, prev, lastStore, race>>

\* The prompt cannot be skipped: from it the command goes on with the answer,
\* or the process ends (click.confirm aborts on an interrupt).
NextCli ==
    \/ Load
    \/ Exit
    \/ ~AtPrompt /\ Return
    \/ CreateGroup
    \/ AddFiles
    \/ ListGroups
    \/ CleanGroups
    \/ RemoveGroup
    \/ RemoveFile
    \/ CleanCommand
    \/ ConfirmClean

\* The library's calls together with the clean command.
SpecCli == Init /\ [][NextCli]_vars

\* ------------------------------------------- two processes on one file
RECURSIVE SumSeq(_)
SumSeq(s) == IF s = <<>> THEN 0 ELSE Head(s) + SumSeq(Tail(s))

\* The length of what json.dump(indent=2) writes for a list of paths: "[]",
\* or one quoted path per line, indented by four, between "[" and "  ]".
ListLen(files) ==
    IF files = <<>> THEN 2
    ELSE 2 + SumSeq([i \in 1..Len(files) |-> 4 + Len(files[i]) + 2])
           + 2 * (Len(files) - 1) + 4

\* The length of what json.dump(indent=2) writes for the document: "{}", or
\* one member per line, indented by two, between "{" and "}".
JsonLen(doc) ==
    IF doc = <<>> THEN 2
    ELSE 2 + SumSeq([i \in 1..Len(doc) |->
                        2 + (Len(doc[i][1]) + 2) + 2 + ListLen(doc[i][2])])
           + 2 * (Len(doc) - 1) + 2

\* The file just after open(storage_path, 'w'): it exists and is empty.
Truncated == Garbled

\* The file after a process that opened it with 'w' writes doc from offset
\* 0 while the file holds size bytes (written by another process since this
\* one's open): a longer earlier text keeps its tail behind the new
\* document, and the whole does not parse.
Overwritten(size, doc) == IF JsonLen(doc) >= size THEN File(doc) ELSE Garbled

\* The calls a racing process may make, each on the store gs it loaded.
Effect(r) == [groups |-> r.groups, save |-> r.save]

RaceOutcomes(gs) ==
    {Effect(create_group(gs, name)) : name \in GroupNames}
    \cup {Effect(add_files_to_group(gs, name, <<path>>)) :
             name \in GroupNames, path \in RawPaths}
    \cup {Effect(remove_group(gs, name)) : name \in GroupNames}
    \cup {Effect(remove_file_from_group(gs, name, path)) :
             name \in GroupNames, path \in RawPaths}

\* The variables of the single process, which a race leaves alone.
Aside == <<groups, loaded, op, ret, wrote, pre, preDisk, prevList, prev, lastStore>>

At(p, pc) == race.proc[p].pc = pc

Step(p, rec) == [race EXCEPT !.proc[p] = rec]

\* FileGroupManager(storage_path) in process p, up to the repair save if
\* there is one.
RaceLoad(p) ==
    /\ At(p, "start")
    /\ LET r == _load_groups(disk)
       IN  race' = Step(p,
               IF r.raised # ""
               THEN [Fresh EXCEPT !.pc = "failed"]
               ELSE [pc |-> IF r.changed THEN "saving" ELSE "ready",
                     groups |-> r.groups, base |-> r.groups, resume |-> "ready"])
    /\ UNCHANGED <<disk, Aside>>

\* One call in process p, up to its _save_groups if it has one.
RaceCall(p) ==
    /\ At(p, "ready")
    /\ \E r \in RaceOutcomes(race.proc[p].groups) :
          race' = Step(p, [race.proc[p] EXCEPT
                              !.pc = IF r.save THEN "saving" ELSE "done",
                              !.groups = r.groups,
                              !.resume = "done"])
    /\ UNCHANGED <<disk, Aside>>

\* _save_groups, first half: open(storage_path, 'w') truncates the file.
RaceOpen(p) ==
    /\ At(p, "saving")
    /\ disk' = Truncated
    /\ race' = [Step(p, [race.proc[p] EXCEPT !.pc = "writing"]) EXCEPT !.size = 0]
    /\ UNCHANGED Aside

\* _save_groups, second half: json.dump fills the buffer and leaving the
\* with block writes it from offset 0 and closes.
RaceWrite(p) ==
    /\ At(p, "writing")
    /\ LET doc == Dump(race.proc[p].groups)
       IN  /\ disk' = Overwritten(race.size, doc)
           /\ race' = [Step(p, [race.proc[p] EXCEPT !.pc = race.proc[p].resume])
                          EXCEPT !.size = IF JsonLen(doc) >= race.size
                                          THEN JsonLen(doc) ELSE race.size,
                                 !.last = p]
    /\ UNCHANGED Aside

NextRace ==
    \E p \in Procs : RaceLoad(p) \/ RaceCall(p) \/ RaceOpen(p) \/ RaceWrite(p)

Small(doc) == \A i \in 1..Len(doc) : Len(doc[i][2]) <= MaxRaceFiles

\* Two invocations started together on a file that parses or is absent.
InitRace ==
    /\ Init
    /\ disk # Garbled
    /\ Small(disk.doc)

SpecRace == InitRace /\ [][NextRace]_vars

\* ------------------------------------------------- hand-edited documents
\* Documents whose last group has a longer array, so that a path can occur
\* again in it with another path in between.
EditedDocs ==
    {<<<<g, fl>>>> : g \in GroupNames, fl \in SeqsUpTo(Paths, MaxEditedFiles)}
    \cup {d \in {<<<<g, fl>>, <<h, fm>>>> :
                    g \in GroupNames, h \in GroupNames,
                    fl \in SeqsUpTo(Paths, 1),
                    fm \in SeqsUpTo(Paths, MaxEditedFiles)} : d[1][1] # d[2][1]}

InitEdited ==
    /\ groups = <<>>
    /\ loaded = FALSE
    /\ disk \in {File(d) : d \in EditedDocs}
    /\ op = IdleCall
    /\ ret = Nothing
    /\ wrote = FALSE
    /\ pre = <<>>
    /\ preDisk = disk
    /\ prevList = NoList
    /\ prev = NoPrev
    /\ lastStore = NoLast
    /\ race = NoRace

\* The program started on a hand-edited document.
SpecEdited == InitEdited /\ [][Next]_vars

\* ------------------------------------------------------------- properties
\* How many times path is listed in the whole dict.
Occurrences(gs, path) ==
    Cardinality(UNION {{<<i, j>> : j \in {k \in 1..Len(gs[i].files) :
                                              gs[i].files[k] = path}} :
                       i \in 1..Len(gs)})

\* The names of the groups that list path.
GroupsOf(gs, path) ==
    {gs[i].name : i \in {k \in 1..Len(gs) : Contains(gs[k].files, path)}}

\* The last call was add_files_to_group and it returned.
AddReturned == op.name = "add_files" /\ ret.raised = ""

\* C1: single-group membership.  Once a process has loaded (repair pass
\* included), and after every store call it makes, every path is listed at
\* most once in the whole store: in at most one group, and once there.
C1_SingleGroupMembership ==
    loaded => \A path \in Paths : Occurrences(groups, path) <= 1

\* An add_files_to_group has just moved a path out of another group.
C1_Witness ==
    /\ loaded
    /\ AddReturned
    /\ \E path \in Named(op.paths) :
          /\ GroupsOf(pre, path) = GroupNames \ {op.group}
          /\ GroupsOf(groups, path) = {op.group}

\* C2: silent move on add.  After an add_files_to_group that returned,
\* every path it named is a member of the group it named and of no other
\* group; one that raised (no such group) leaves every membership as the
\* latest successful add left it.
C2_SilentMove ==
    op.name = "add_files" =>
        IF ret.raised = ""
        THEN \A path \in Named(op.paths) : GroupsOf(groups, path) = {op.group}
        ELSE groups = pre

\* The path was in the first group, and the add named the second.
C2_Witness ==
    /\ AddReturned
    /\ Len(pre) = 2
    /\ op.group = pre[2].name
    /\ \E path \in Named(op.paths) :
          /\ Contains(pre[1].files, path)
          /\ GroupsOf(groups, path) = {op.group}
    /\ groups[1].files = <<>>

\* C3: disk mirrors memory.  From the end of load on, between calls, the
\* document on disk is the serialization of the whole in-memory store; no
\* file stands for the empty mapping.
C3_DiskMirrorsMemory ==
    loaded => /\ disk.doc = Dump(groups)
              /\ (~disk.exists => groups = <<>>)

\* A call has changed the store and saved it.
C3_Witness ==
    /\ loaded
    /\ wrote
    /\ groups # pre
    /\ op.name = "remove_file"

\* The distinct elements of abs_paths that are not in have, each at the place
\* of its first occurrence.
RECURSIVE NewlyAdded(_, _)
NewlyAdded(abs_paths, have) ==
    IF abs_paths = <<>> THEN <<>>
    ELSE IF Head(abs_paths) \in have THEN NewlyAdded(Tail(abs_paths), have)
    ELSE <<Head(abs_paths)>> \o NewlyAdded(Tail(abs_paths), have \cup {Head(abs_paths)})

Elements(s) == {s[i] : i \in 1..Len(s)}

\* C4: the result of add_files_to_group on a group that exists.  added
\* counts the inputs whose resolved path was not yet a member when its turn
\* came, already counts the others, the two add up to the number of inputs,
\* and the group is its old list followed by the new members in input order,
\* each once.
C4_AddFilesResult ==
    (op.name = "add_files" /\ HasGroup(pre, op.group)) =>
        LET before == GetFiles(pre, op.group)
            newly == NewlyAdded(MapResolve(op.paths), Elements(before))
        IN  /\ ret.raised = ""
            /\ ret.value[1] = Len(newly)
            /\ ret.value[2] = Len(op.paths) - Len(newly)
            /\ ret.value[1] + ret.value[2] = Len(op.paths)
            /\ GetFiles(groups, op.group) = before \o newly

\* Two spellings of one new path were added to a group that had a member:
\* one is added, the other counted as already there.
C4_Witness ==
    /\ AddReturned
    /\ HasGroup(pre, op.group)
    /\ GetFiles(pre, op.group) # <<>>
    /\ ret.value = <<1, 1>>
    /\ Len(GetFiles(groups, op.group)) = Len(GetFiles(pre, op.group)) + 1

\* C5: add_files_to_group on a name that is no group raises KeyError and
\* leaves the store and the document as they were, whatever the paths.
C5_AddToAbsentGroup ==
    (op.name = "add_files" /\ ~HasGroup(pre, op.group)) =>
        /\ ret.raised = "KeyError"
        /\ groups = pre
        /\ disk = preDisk
        /\ ~wrote

\* The call raised although a path it named is a member of another group.
C5_Witness ==
    /\ op.name = "add_files"
    /\ ret.raised = "KeyError"
    /\ \E path \in Named(op.paths) : GroupsOf(pre, path) # {}

\* C6: add_files_to_group(g, []) on a group that exists returns (0, 0),
\* changes no group, and leaves the document on disk as it was.
C6_AddNothing ==
    (op.name = "add_files" /\ HasGroup(pre, op.group) /\ op.paths = <<>>) =>
        /\ ret.raised = ""
        /\ ret.value = <<0, 0>>
        /\ groups = pre
        /\ disk = preDisk

\* An empty add to a store with members; _save_groups ran all the same.
C6_Witness ==
    /\ AddReturned
    /\ op.paths = <<>>
    /\ wrote
    /\ \E i \in 1..Len(pre) : pre[i].files # <<>>

\* C7: create_group(name).  A known name: returns False, writes nothing,
\* every group as before.  A new name: returns True, the name is a group
\* with no member, every other group as before, and the store is saved.
C7_CreateGroup ==
    op.name = "create_group" =>
        IF HasGroup(pre, op.group)
        THEN /\ ret = Returned(FALSE)
             /\ groups = pre
             /\ ~wrote
             /\ disk = preDisk
        ELSE /\ ret = Returned(TRUE)
             /\ HasGroup(groups, op.group)
             /\ GetFiles(groups, op.group) = <<>>
             /\ Len(groups) = Len(pre) + 1
             /\ \A i \in 1..Len(pre) : groups[i] = pre[i]
             /\ wrote
             /\ disk = File(Dump(groups))

\* create_group was called on a group that has members.
C7_Witness ==
    /\ op.name = "create_group"
    /\ HasGroup(pre, op.group)
    /\ GetFiles(pre, op.group) # <<>>
    /\ ret = Returned(FALSE)

\* listing pairs every member of every group of gs, in stored order, with
\* is_missing = the path is not in exist.
ListsAllMembers(listing, gs, exist) ==
    /\ Len(listing) = Len(gs)
    /\ \A i \in 1..Len(gs) :
          /\ listing[i].name = gs[i].name
          /\ Len(listing[i].files) = Len(gs[i].files)
          /\ \A j \in 1..Len(gs[i].files) :
                /\ listing[i].files[j][1] = gs[i].files[j]
                /\ listing[i].files[j][2] = (gs[i].files[j] \notin exist)

\* new is old with exactly the members outside keep left out, the others in
\* the order they had.
IsRestriction(new, old, keep) ==
    /\ Elements(new) = Elements(old) \cap keep
    /\ Len(new) = Cardinality({k \in 1..Len(old) : old[k] \in keep})
    /\ \A k1 \in 1..Len(new), k2 \in 1..Len(new) :
          k1 < k2 => \E j1 \in 1..Len(old), j2 \in 1..Len(old) :
                        j1 < j2 /\ old[j1] = new[k1] /\ old[j2] = new[k2]

\* after has the groups of before, in the same order, each holding its
\* members that are in exist, in the order they had.
KeepsExisting(after, before, exist) ==
    /\ Len(after) = Len(before)
    /\ \A i \in 1..Len(before) :
          /\ after[i].name = before[i].name
          /\ IsRestriction(after[i].files, before[i].files, exist)

\* Some group of gs has a member in exist and a member outside it.
HasMixedGroup(gs, exist) ==
    \E i \in 1..Len(gs) :
       /\ Elements(gs[i].files) \cap exist # {}
       /\ Elements(gs[i].files) \ exist # {}

\* C8: list_groups(clean=False) is a pure read.  It changes neither the
\* store nor the document and writes nothing; it returns every member of
\* every group in stored order with is_missing = (the path does not exist);
\* and called again at once on an unchanged filesystem it returns the same.
C8_PlainListIsRead ==
    IsPlainList(op) =>
        /\ ret.raised = ""
        /\ groups = pre
        /\ disk = preDisk
        /\ ~wrote
        /\ ListsAllMembers(ret.value, pre, op.exist)
        /\ (prevList.valid /\ prevList.exist = op.exist) => ret.value = prevList.value

\* The second of two list_groups(False) calls on the same filesystem, with a
\* group that has a missing and a present member.
C8_Witness ==
    /\ IsPlainList(op)
    /\ prevList.valid
    /\ prevList.exist = op.exist
    /\ HasMixedGroup(groups, op.exist)

\* C9: list_groups(clean=True) returns every member the groups had before
\* the call, missing ones flagged, in stored order; afterwards every group
\* holds exactly its members that exist, in their old order, and that store
\* is what the document on disk holds.
C9_CleaningList ==
    (op.name = "list_groups" /\ op.clean) =>
        /\ ret.raised = ""
        /\ ListsAllMembers(ret.value, pre, op.exist)
        /\ KeepsExisting(groups, pre, op.exist)
        /\ wrote
        /\ disk = File(Dump(groups))

\* A cleaning list of a group of three members of which one is missing.
C9_Witness ==
    /\ op.name = "list_groups"
    /\ op.clean
    /\ \E i \in 1..Len(pre) :
          /\ Len(pre[i].files) = 3
          /\ Len(groups[i].files) = 2
          /\ ret.value[i].files[2][2]

\* removed maps exactly the groups of gs that have a member outside exist,
\* in store order, each to those members in stored order.
IsRemovedMap(removed, gs, exist) ==
    LET losers == SelectSeq(gs, LAMBDA e : Elements(e.files) \ exist # {})
    IN  /\ Len(removed) = Len(losers)
        /\ \A i \in 1..Len(losers) :
              /\ removed[i].name = losers[i].name
              /\ IsRestriction(removed[i].files, losers[i].files, Paths \ exist)

\* C10: clean_groups returns the groups that had a missing member, each
\* with its missing members in stored order; afterwards every group holds
\* exactly its members that exist, in their old order; it writes if and
\* only if it removed a path, and with nothing missing it returns the empty
\* mapping and leaves the document alone.
C10_CleanGroups ==
    op.name = "clean_groups" =>
        LET missing == \E i \in 1..Len(pre) : Elements(pre[i].files) \ op.exist # {}
        IN  /\ ret.raised = ""
            /\ IsRemovedMap(ret.value, pre, op.exist)
            /\ KeepsExisting(groups, pre, op.exist)
            /\ wrote <=> missing
            /\ wrote => disk = File(Dump(groups))
            /\ ~missing => (ret.value = <<>> /\ disk = preDisk /\ groups = pre)

\* clean_groups on two groups of which only the second had a missing member,
\* beside a present one.
C10_Witness ==
    /\ op.name = "clean_groups"
    /\ Len(pre) = 2
    /\ Len(ret.value) = 1
    /\ ret.value[1].name = pre[2].name
    /\ groups[2].files # <<>>
    /\ pre[1].files # <<>>
    /\ wrote

\* The last call neither changed the store or the file, nor saved.
NothingChanged == groups = pre /\ disk = preDisk /\ ~wrote

\* The last call changed the store and saved it.
Persisted == wrote /\ disk = File(Dump(groups))

\* Every group of after other than name is a group of before, unchanged and
\* in the same order, and the other way round.
OthersUnchanged(after, before, name) ==
    SelectSeq(after, LAMBDA e : e.name # name)
        = SelectSeq(before, LAMBDA e : e.name # name)

\* C11: clean_groups is idempotent on an unchanged filesystem.  After any
\* clean_groups no member of any group is missing; and a clean_groups made
\* directly after another one, the same paths existing, returns the empty
\* mapping, removes nothing and writes nothing.
C11_CleanTwice ==
    op.name = "clean_groups" =>
        /\ \A i \in 1..Len(groups) : Elements(groups[i].files) \subseteq op.exist
        /\ (prev.valid /\ prev.call.exist = op.exist) =>
               (ret.raised = "" /\ ret.value = <<>> /\ NothingChanged)

\* The second of two clean_groups calls on the same filesystem, the first
\* of which removed a path and left another.
C11_Witness ==
    /\ op.name = "clean_groups"
    /\ prev.valid
    /\ prev.call.exist = op.exist
    /\ prev.value # <<>>
    /\ \E i \in 1..Len(groups) : groups[i].files # <<>>

\* The (group, path) pairs a list_groups result flags as missing.
FlaggedPairs(listing) ==
    UNION {{<<listing[i].name, listing[i].files[j][1]>> :
                j \in {k \in 1..Len(listing[i].files) : listing[i].files[k][2]}} :
           i \in 1..Len(listing)}

\* The (group, path) pairs in the mapping clean_groups returns.
RemovedPairs(removed) ==
    UNION {{<<removed[i].name, removed[i].files[j]>> :
                j \in 1..Len(removed[i].files)} :
           i \in 1..Len(removed)}

\* What clean_groups would have done in place of the last call: the store
\* and the file it leaves, and what it returns.
CleanInstead ==
    LET r == clean_groups(pre, op.exist)
    IN  [groups |-> r.groups,
         disk |-> IF r.save THEN SaveGroups(r.groups) ELSE preDisk,
         removed |-> r.ret.value]

C13_RemoveFile ==
    op.name = "remove_file" =>
        LET path == Resolve(op.paths[1])
        IN  /\ IF ~HasGroup(pre, op.group)
               THEN ret.raised = "KeyError" /\ NothingChanged
               ELSE IF ~Contains(GetFiles(pre, op.group), path)
               THEN ret.raised = "" /\ ret.value = FALSE /\ NothingChanged
               ELSE /\ ret.raised = ""
                    /\ ret.value = TRUE
                    /\ GroupsOf(groups, path) = {}
                    /\ HasGroup(groups, op.group)
                    /\ IsRestriction(GetFiles(groups, op.group),
                                     GetFiles(pre, op.group), Paths \ {path})
                    /\ Len(groups) = Len(pre)
                    /\ OthersUnchanged(groups, pre, op.group)
                    /\ Persisted
            /\ (prev.valid /\ Resolve(prev.call.paths[1]) = path) =>
                   (ret.raised = "" /\ ret.value = TRUE)

\* A path was added to a group under one spelling and removed from it under
\* another, the group keeping two older members.
C13_Witness ==
    /\ op.name = "remove_file"
    /\ prev.valid
    /\ prev.call.paths[1] # op.paths[1]
    /\ Resolve(prev.call.paths[1]) = Resolve(op.paths[1])
    /\ ret.value = TRUE
    /\ Len(GetFiles(groups, op.group)) = 2

\* C14: remove_group(name).  No such group: False, nothing changed.  A
\* group: True, the name is no group any more, none of its members is a
\* member of any group, every other group is as before, and the store is
\* saved.
C14_RemoveGroup ==
    op.name = "remove_group" =>
        IF ~HasGroup(pre, op.group)
        THEN ret.raised = "" /\ ret.value = FALSE /\ NothingChanged
        ELSE /\ ret.raised = ""
             /\ ret.value = TRUE
             /\ ~HasGroup(groups, op.group)
             /\ \A path \in Elements(GetFiles(pre, op.group)) :
                   GroupsOf(groups, path) = {}
             /\ OthersUnchanged(groups, pre, op.group)
             /\ Len(groups) = Len(pre) - 1
             /\ Persisted

\* The first of two groups, both with members, was removed.
C14_Witness ==
    /\ op.name = "remove_group"
    /\ ret.value = TRUE
    /\ Len(pre) = 2
    /\ pre[1].name = op.group
    /\ pre[1].files # <<>>
    /\ Len(groups) = 1
    /\ groups[1].files # <<>>

\* The paths a document lists.
DocPaths(doc) == UNION {Elements(doc[i][2]) : i \in 1..Len(doc)}

\* The members of a document that list path, by position.
DocListers(doc, path) == {i \in 1..Len(doc) : Contains(doc[i][2], path)}

\* The name of the first group of the document that lists path.
FirstLister(doc, path) ==
    doc[CHOOSE i \in DocListers(doc, path) :
            \A k \in DocListers(doc, path) : i <= k][1]

\* How many times the document lists path.
DocOccurrences(doc, path) ==
    Cardinality(UNION {{<<i, j>> : j \in {k \in 1..Len(doc[i][2]) :
                                              doc[i][2][k] = path}} :
                       i \in 1..Len(doc)})

\* The last call constructed a manager from a document that parses.
LoadedDocument ==
    op.name = "load" /\ preDisk.exists /\ preDisk.parses

\* C15: repair on load, first group wins.  After a load, every path of the
\* document is a member of the first group that listed it and of no other,
\* once; no path of the document is lost and none appears; the groups are
\* those of the document, in its order; if the document repeated a path the
\* repaired store is on disk when the constructor returns, and if it
\* repeated none the load wrote nothing.
C15_RepairOnLoad ==
    LoadedDocument =>
        LET doc == preDisk.doc
        IN  /\ ret.raised = ""
            /\ loaded
            /\ \A path \in DocPaths(doc) :
                  /\ GroupsOf(groups, path) = {FirstLister(doc, path)}
                  /\ Occurrences(groups, path) = 1
            /\ \A i \in 1..Len(groups) : Elements(groups[i].files) \subseteq DocPaths(doc)
            /\ Len(groups) = Len(doc)
            /\ \A i \in 1..Len(doc) : groups[i].name = doc[i][1]
            /\ IF \E path \in Paths : DocOccurrences(doc, path) > 1
               THEN Persisted
               ELSE ~wrote /\ disk = preDisk

\* A document listed a path in both of its groups, the second group having
\* another member as well; the load kept the path in the first and saved.
C15_Witness ==
    /\ LoadedDocument
    /\ Len(preDisk.doc) = 2
    /\ \E path \in Paths :
          /\ DocListers(preDisk.doc, path) = {1, 2}
          /\ GroupsOf(groups, path) = {groups[1].name}
    /\ groups[2].files # <<>>
    /\ wrote

\* C16: save/load round trip.  The store a process constructs equals the
\* store the process before it had when it ended (and had saved): same
\* groups in the same order, same members in the same order; and that load
\* writes nothing.
C16_RoundTrip ==
    (op.name = "load" /\ lastStore.valid) =>
        /\ ret.raised = ""
        /\ groups = lastStore.store
        /\ ~wrote
        /\ disk = preDisk

\* A process ended right after a call that saved two groups with members,
\* one of them with two, and the next process has loaded.
C16_Witness ==
    /\ op.name = "load"
    /\ lastStore.valid
    /\ lastStore.saved
    /\ Len(lastStore.store) = 2
    /\ Len(lastStore.store[1].files) = 2
    /\ lastStore.store[2].files # <<>>
    /\ loaded

StoreCalls ==
    {"create_group", "add_files", "list_groups", "clean_groups",
     "remove_group", "remove_file"}

\* C18: a corrupt document is never reset.  Constructing a manager from a
\* file that does not parse raises, leaves no manager and leaves the file
\* exactly as it was; no store call is ever made over such a file.
C18_CorruptNeverReset ==
    /\ (op.name = "load" /\ preDisk.exists /\ ~preDisk.parses) =>
          /\ ret.raised # ""
          /\ ~loaded
          /\ groups = <<>>
          /\ ~wrote
          /\ disk = preDisk
    /\ (disk.exists /\ ~disk.parses) => ~loaded
    /\ op.name \in StoreCalls => preDisk.parses

\* The constructor has just raised on a file that does not parse.
C18_Witness ==
    /\ op.name = "load"
    /\ ret.raised = "JSONDecodeError"
    /\ disk = Garbled
    /\ ~loaded
\* C17: a failed save keeps a valid document.  Whenever a call has ended
\* with the save raising, the file is still the complete document it was
\* before the call, and it loads.
C17_FailedSaveKeepsDocument ==
    ret.raised = "OSError" =>
        /\ disk = preDisk
        /\ _load_groups(disk).raised = ""
\* C19: confirmation precedes cleaning.  While the clean command without -y
\* waits for the answer, and after the answer no, the store is the one the
\* constructor built and the file is as the constructor left it: nothing
\* has been removed from either.
C19_ConfirmBeforeClean ==
    op.name \in {"clean_confirm", "clean_declined"} =>
        LET l == _load_groups(preDisk)
        IN  /\ groups = l.groups
            /\ disk = IF l.changed THEN SaveGroups(l.groups) ELSE preDisk
Finished(p) == At(p, "done") \/ At(p, "failed")

\* C20: last save wins.  Once both invocations have finished, the file is
\* the dump of the store held by the one that wrote last.
C20_LastSaveWins ==
    ((\A p \in Procs : Finished(p)) /\ race.last # 0) =>
        disk = File(Dump(race.proc[race.last].groups))

\* A lost update: both invocations loaded the same store, both saved, the
\* file is the store of the one that wrote last, and a group the other one
\* created is not in it.
C20_LostUpdate ==
    \E p \in Procs, q \in Procs :
       /\ p # q
       /\ At(p, "done") /\ At(q, "done")
       /\ race.proc[p].base = race.proc[q].base
       /\ race.last = q
       /\ disk = File(Dump(race.proc[q].groups))
       /\ \E name \in GroupNames :
             /\ HasGroup(race.proc[p].groups, name)
             /\ ~HasGroup(race.proc[p].base, name)
             /\ ~HasGroup(race.proc[q].groups, name)
\* The last call constructed a manager, and the process before it did
\* nothing but construct one from the same file.
LoadedAgain ==
    op.name = "load" /\ lastStore.valid /\ lastStore.call = "load"

\* C21: the repair pass is idempotent.  The repair applied to a store that
\* a load has built removes nothing and asks for no save; and a load that
\* follows an invocation which only loaded builds the same store and
\* writes nothing.
C21_RepairIdempotent ==
    /\ (op.name = "load" /\ ret.raised = "") =>
          _fix_duplicate_files(groups) = [groups |-> groups, changed |-> FALSE]
    /\ LoadedAgain =>
          /\ ret.raised = ""
          /\ groups = lastStore.store
          /\ ~wrote
          /\ disk = preDisk

\* The first of two successive loads repaired a document of two groups and
\* saved it; the second has now loaded what the first wrote.
C21_Witness ==
    /\ LoadedAgain
    /\ lastStore.saved
    /\ loaded
    /\ Len(groups) = 2
    /\ groups[1].files # <<>>
\* The j-th path of the i-th group of the document is listed earlier in the
\* document: in an earlier group, or earlier in the same group.
SeenBefore(doc, i, j) ==
    \/ \E h \in 1..(i - 1) : Contains(doc[h][2], doc[i][2][j])
    \/ \E k \in 1..(j - 1) : doc[i][2][k] = doc[i][2][j]

\* The first j paths of the i-th group without those listed earlier.
RECURSIVE FirstOccurrences(_, _, _)
FirstOccurrences(doc, i, j) ==
    IF j = 0 THEN <<>>
    ELSE IF SeenBefore(doc, i, j) THEN FirstOccurrences(doc, i, j - 1)
    ELSE Append(FirstOccurrences(doc, i, j - 1), doc[i][2][j])

\* C22: the repair pass keeps first occurrences in place.  After a load,
\* each group is its array in the document with only the later occurrences
\* of paths already listed deleted.
C22_RepairKeepsFirst ==
    LoadedDocument =>
        /\ Len(groups) = Len(preDisk.doc)
        /\ \A i \in 1..Len(groups) :
              groups[i].files =
                  FirstOccurrences(preDisk.doc, i, Len(preDisk.doc[i][2]))
\* C23: single membership of every document a race writes.  Once any of
\* the racing invocations has written, the file, whenever it holds a whole
\* document, lists no path in two groups nor twice in one group.
C23_RaceKeepsSingleMembership ==
    (race.last # 0 /\ disk.parses) =>
        \A path \in Paths : DocOccurrences(disk.doc, path) <= 1

\* Both invocations loaded the same store and put the same path into
\* different groups; both saved in turn; the file is the store of the one
\* that wrote last and lists the path once.
C23_Witness ==
    \E p \in Procs, q \in Procs, path \in Paths :
       /\ p # q
       /\ At(p, "done") /\ At(q, "done")
       /\ race.proc[p].base = race.proc[q].base
       /\ race.last = q
       /\ disk = File(Dump(race.proc[q].groups))
       /\ GroupsOf(race.proc[p].groups, path) # {}
       /\ GroupsOf(race.proc[q].groups, path) # {}
       /\ GroupsOf(race.proc[p].groups, path) # GroupsOf(race.proc[q].groups, path)
       /\ DocOccurrences(disk.doc, path) = 1
\* The group names of a store, in order, and as a set.
NameSeq(gs) == [i \in 1..Len(gs) |-> gs[i].name]
NameSet(gs) == {gs[i].name : i \in 1..Len(gs)}

\* C24: the set of group names changes only through create_group and
\* remove_group.  create_group leaves the names it found plus the one
\* given, remove_group those it found minus the one given; a load builds
\* the groups the document names; every other call leaves the names, and
\* their order, as they were, so an emptied group stays.
C24_GroupNamesFrame ==
    /\ op.name = "create_group" => NameSet(groups) = NameSet(pre) \cup {op.group}
    /\ op.name = "remove_group" => NameSet(groups) = NameSet(pre) \ {op.group}
    /\ op.name \in {"add_files", "list_groups", "clean_groups", "remove_file"} =>
          NameSeq(groups) = NameSeq(pre)
    /\ LoadedDocument =>
          NameSeq(groups) = [i \in 1..Len(preDisk.doc) |-> preDisk.doc[i][1]]

\* clean_groups has removed the last members of one group while another
\* kept a member; the emptied group is still in the store.
C24_Witness ==
    /\ op.name = "clean_groups"
    /\ Len(groups) = 2
    /\ \E i \in 1..2 :
          /\ pre[i].files # <<>>
          /\ groups[i].files = <<>>
          /\ groups[i].name = pre[i].name
    /\ \E i \in 1..2 : groups[i].files # <<>>
====
